---- MODULE Spec2Model ----
(***************************************************************************)
(* Dentist AI receptionist: the per-call bridge between the Call Leg (the  *)
(* Twilio media stream, `ws`) and the Model Leg (the OpenAI realtime       *)
(* socket, `rt`), as written in handleTwilioMedia, and the tool router     *)
(* handleToolCall.  The model follows the latest iteration of index.js     *)
(* (src/unnamed/part_001: keepalive timers, close cascade, greeting).      *)
(*                                                                         *)
(* One step of the model is one turn of the Node event loop: the whole     *)
(* body of one callback, or the part of an async function between two      *)
(* awaits that wait for I/O.  The sockets follow the `ws` library:         *)
(* close() on an OPEN (or CONNECTING) socket makes it CLOSING and the      *)
(* 'close' event follows later; close() on a CLOSING or CLOSED socket does *)
(* nothing; send() on a socket that is not OPEN transmits nothing; a       *)
(* CLOSING socket still delivers the messages its peer had sent.           *)
(***************************************************************************)
EXTENDS Integers, Sequences, FiniteSets, TLC

\* ------------------------------------------------------------------ bounds
\* Inbound messages delivered, on both legs of all sessions together.
MaxEvents == 3
\* Invocations of handleToolCall in a run of the tool specification.
MaxToolCalls == 3

\* ------------------------------------------------------------- value sets
Sessions == {"A", "B"}
MediaPath == "/twilio-media"
Paths == {MediaPath, "/twilio-media/", "/"}
Payloads == {"p1", "p2"}

NoCall == <<"", 0>>

\* ---------------------------------------------------------- reference data
FAQ_hours == "Mon-Fri 8am-5pm; Sat 9am-1pm; closed Sunday."
FAQ_address == "1234 Naples Blvd, Suite 200, Naples, FL 34102."
FAQ_insurance ==
    "We accept most PPO plans including Delta Dental and Cigna. Call for specifics."
FAQ_parking == "Free lot behind the building; enter via 2nd Street."
FAQ_new_patients ==
    "Yes, we're accepting new patients. Bring a photo ID and your insurance card."
Deflection == "I'm not sure-let me connect you to our staff."

SLOTS == << [id |-> "tue-1030", label |-> "Tue 10:30 AM (Hygienist)"],
            [id |-> "tue-1415", label |-> "Tue 2:15 PM (Hygienist)"],
            [id |-> "wed-0900", label |-> "Wed 9:00 AM (Dr. Lee)"] >>

NoSlot == [id |-> "", label |-> ""]

\* The module-level slot array every session's handleToolCall reads.
VARIABLE slots

\* A value handleToolCall returns, before JSON.stringify: the keys the object
\* has (ok is "absent" when the object has no ok key, and so on).
Result(ok, error, answer, list, booked, sid) ==
    [ok |-> ok, error |-> error, answer |-> answer, slots |-> list,
     booked |-> booked, sid |-> sid]
NoResult == Result("absent", "", "", <<>>, NoSlot, "")

\* ---------------------------------------------------------- tool router
\* Text is a sequence of one-character strings, so that toLowerCase and
\* includes are computed character by character.
Upper == <<"A","B","C","D","E","F","G","H","I","J","K","L","M",
           "N","O","P","Q","R","S","T","U","V","W","X","Y","Z">>
Lower == <<"a","b","c","d","e","f","g","h","i","j","k","l","m",
           "n","o","p","q","r","s","t","u","v","w","x","y","z">>
LowerChar(c) ==
    IF \E i \in 1..Len(Upper) : Upper[i] = c
    THEN Lower[CHOOSE i \in 1..Len(Upper) : Upper[i] = c]
    ELSE c
\* String.prototype.toLowerCase
toLowerCase(q) == [i \in 1..Len(q) |-> LowerChar(q[i])]
\* String.prototype.includes
includes(q, kw) ==
    \E i \in 0..(Len(q) - Len(kw)) : \A j \in 1..Len(kw) : q[i + j] = kw[j]

KW_hour == <<"h","o","u","r">>
KW_address == <<"a","d","d","r","e","s","s">>
KW_location == <<"l","o","c","a","t","i","o","n">>
KW_insurance == <<"i","n","s","u","r","a","n","c","e">>
KW_parking == <<"p","a","r","k","i","n","g">>
KW_new_patient == <<"n","e","w"," ","p","a","t","i","e","n","t">>

\* The getFAQ branch with the parking test moved to the front of the chain.
getFAQ_ParkingFirst(q) ==
    IF includes(q, KW_parking) THEN FAQ_parking
    ELSE IF includes(q, KW_hour) THEN FAQ_hours
    ELSE IF includes(q, KW_address) \/ includes(q, KW_location) THEN FAQ_address
    ELSE IF includes(q, KW_insurance) THEN FAQ_insurance
    ELSE IF includes(q, KW_new_patient) THEN FAQ_new_patients
    ELSE Deflection

\* The getFAQ branch on the lower-cased question.
getFAQ(q) ==
    IF includes(q, KW_hour) THEN FAQ_hours
    ELSE IF includes(q, KW_address) \/ includes(q, KW_location) THEN FAQ_address
    ELSE IF includes(q, KW_insurance) THEN FAQ_insurance
    ELSE IF includes(q, KW_parking) THEN FAQ_parking
    ELSE IF includes(q, KW_new_patient) THEN FAQ_new_patients
    ELSE Deflection

\* SLOTS.find(s => s.id === slotId): the first slot with that id, or NoSlot.
FindSlot(slotId) ==
    IF \E i \in 1..Len(slots) : slots[i].id = slotId
    THEN slots[CHOOSE i \in 1..Len(slots) :
                 slots[i].id = slotId /\ \A j \in 1..(i - 1) : slots[j].id # slotId]
    ELSE NoSlot

\* The arguments object of a function call.  question is [type, text] with
\* type "absent", "string" or "number" (a non-zero number); the other
\* arguments are strings, "" when absent; filter holds getSlots' date,
\* provider and window.
NoFilter == [date |-> "", provider |-> "", window |-> ""]
Args(question, slotId, phone, to, message) ==
    [question |-> question, slotId |-> slotId, phone |-> phone, to |-> to,
     message |-> message, filter |-> NoFilter]
NoQuestion == [type |-> "absent", text |-> <<>>]
Question(text) == [type |-> "string", text |-> text]
NumberQuestion == [type |-> "number", text |-> <<>>]
NoArgs == Args(NoQuestion, "", "", "", "")
Filtered(date, provider, window) ==
    [NoArgs EXCEPT !.filter = [date |-> date, provider |-> provider, window |-> window]]

\* What one invocation of handleToolCall does up to its first wait for I/O:
\*   "return": resolves with `result`;
\*   "throw":  rejects (a TypeError) without any side effect;
\*   "sms":    calls sendSMS(to, ...) and awaits it; resolves with `result`
\*             (sid filled in for the sendSMS tool) if sendSMS resolves and
\*             rejects if sendSMS rejects.
Return(result) == [kind |-> "return", result |-> result, to |-> "", fillSid |-> FALSE]
Throw == [kind |-> "throw", result |-> NoResult, to |-> "", fillSid |-> FALSE]
AwaitSMS(to, result, fillSid) ==
    [kind |-> "sms", result |-> result, to |-> to, fillSid |-> fillSid]

\* A router that throws on a name it does not know.
UnknownTool_Throws == Throw

\* The router's last line: the failure value for a name that is none of the tools.
UnknownTool == Return(Result("false", "Unknown tool", "", <<>>, NoSlot, ""))

handleToolCall(name, args) ==
    IF name = "getFAQ" THEN
        IF args.question.type = "number" THEN Throw
        ELSE Return(Result("absent", "",
                 getFAQ(toLowerCase(IF args.question.type = "string"
                                    THEN args.question.text ELSE <<>>)),
                 <<>>, NoSlot, ""))
    ELSE IF name = "getSlots" THEN Return(Result("absent", "", "", slots, NoSlot, ""))
    ELSE IF name = "bookSlot" THEN
        LET found == FindSlot(args.slotId) IN
        IF found = NoSlot THEN Return(Result("false", "Slot not found", "", <<>>, NoSlot, ""))
        ELSE IF args.phone # ""
             THEN AwaitSMS(args.phone, Result("true", "", "", <<>>, found, ""), FALSE)
             ELSE Return(Result("true", "", "", <<>>, found, ""))
    ELSE IF name = "sendSMS" THEN
        AwaitSMS(args.to, Result("true", "", "", <<>>, NoSlot, ""), TRUE)
    ELSE UnknownTool

\* The message identifier the notification collaborator returns.
Sid == "SM1"

\* ------------------------------------------------ messages on the two legs
\* Messages this program sends on a Model Leg.
Greeting == [type |-> "response.create", call_id |-> NoCall, audio |-> "",
             greeting |-> TRUE, output |-> NoResult]
AudioAppend(p) == [type |-> "input_audio_buffer.append", call_id |-> NoCall,
                   audio |-> p, greeting |-> FALSE, output |-> NoResult]
Commit == [type |-> "input_audio_buffer.commit", call_id |-> NoCall, audio |-> "",
           greeting |-> FALSE, output |-> NoResult]
ResponseCreate == [type |-> "response.create", call_id |-> NoCall, audio |-> "",
                   greeting |-> FALSE, output |-> NoResult]
FunctionCallOutput(cid, result) ==
    [type |-> "response.function_call_output", call_id |-> cid, audio |-> "",
     greeting |-> FALSE, output |-> result]

\* The frame this program sends on a Call Leg.
MediaFrame(p) == [event |-> "media", payload |-> p]

VARIABLES
    hasKey,      \* OPENAI_API_KEY is set (fixed for the life of the process)
    live,        \* the connections the environment attempts in this run
    crashed,     \* the process was terminated by an unhandled rejection
    conn,        \* per connection: "idle" | "accepted" | "destroyed"
    pc,          \* position of handleTwilioMedia: "none" | "negotiating" | "wired" | "done"
    ws,          \* Call Leg readyState: "none" | "open" | "closing" | "closed", or
                 \*   "errored" (CLOSING after a transport error)
    rt,          \* Model Leg: "none" (rt undefined) | "connecting" | "open" | "closing" |
                 \*   "closed", or "errored" (CLOSING after a transport error)
    twilioPing,  \* the Call Leg keepalive interval is set
    rtPing,      \* the Model Leg keepalive interval is set
    rtOut,       \* messages transmitted on the Model Leg, in order
    wsOut,       \* frames transmitted on the Call Leg, in order
    pending,     \* function calls whose handler awaits the notification collaborator
    calls,       \* history: the function-call events the rt message handler received
    dispatched,  \* history: the call_id of every handleToolCall invocation, in order
    toolFailed,  \* history: call_ids whose handleToolCall rejected
    negReqs,     \* history: negotiation requests issued
    negFailed,   \* history: the negotiation request failed
    opens,       \* history: 'open' events of the Model Leg
    mediaIn,     \* history: payloads of `media` events received while ACTIVE
    stopIn,      \* history: number of `stop` events received while ACTIVE
    deltaIn,     \* history: audio.delta chunks received, with the Call Leg state and
                 \*          the number of function calls received before each
    fault,       \* history: an unhandled rejection was raised in this session
    nIn,         \* inbound messages delivered so far
    reqPath,     \* history: the URL of the upgrade request, "" before it
    wsCloses,    \* history: runs of the Call Leg close handler
    rtCloses,    \* history: runs of the Model Leg close handler
    tLog,        \* tool specification: the finished invocations, in order
    tPending,    \* tool specification: the invocations awaiting sendSMS
    smsLog       \* tool specification: the calls of sendSMS, in order

vars == <<hasKey, live, crashed, conn, pc, ws, rt, twilioPing, rtPing, rtOut, wsOut,
          pending, calls, dispatched, toolFailed, negReqs, negFailed, opens, mediaIn, stopIn,
          deltaIn, fault, nIn, slots, reqPath, wsCloses, rtCloses,
          tLog, tPending, smsLog>>

legVars == <<ws, rt, twilioPing, rtPing>>
outVars == <<rtOut, wsOut>>
toolVars == <<pending, calls, dispatched, toolFailed>>
relayHist == <<mediaIn, stopIn, deltaIn>>
negVars == <<negReqs, negFailed>>
procVars == <<hasKey, live, crashed>>
counters == <<nIn>>
closeRuns == <<wsCloses, rtCloses>>
toolIO == <<tLog, tPending, smsLog>>
\* What the accept, negotiation, open, relay and tool-completion steps leave alone.
restVars == <<slots, reqPath, closeRuns, toolIO>>

\* Both legs open.
Active(s) == ws[s] = "open" /\ rt[s] = "open"
\* Both legs closed and nothing of the session left to run.
Closed(s) == ws[s] = "closed" /\ rt[s] \in {"none", "closed"} /\ pc[s] # "negotiating"

\* ------------------------------------------------------- library behaviour
\* A close() that starts a closing handshake on a CLOSED socket as well.
WsCloseCall_Reclose(w) == IF w \in {"open", "closed"} THEN "closing" ELSE w

\* ws.close(): only an OPEN socket starts closing.
WsCloseCall(w) == IF w = "open" THEN "closing" ELSE w
\* rt?.close(): nothing when rt is undefined; a CONNECTING socket aborts its
\* handshake and an OPEN one starts the closing handshake.
RtCloseCall(r) == IF r \in {"connecting", "open"} THEN "closing" ELSE r
\* rt.send(m) / ws.send(f): transmitted only on an OPEN socket.
RtSend(s, m) == IF rt[s] = "open" THEN Append(rtOut[s], m) ELSE rtOut[s]
WsSend(s, f) == IF ws[s] = "open" THEN Append(wsOut[s], f) ELSE wsOut[s]

\* ------------------------------------------------------- inbound messages
\* A message arriving on a Call Leg: what JSON.parse makes of it.
WsMsg(parse, event, hasMedia, payload) ==
    [parse |-> parse, event |-> event, hasMedia |-> hasMedia, payload |-> payload]
WsStart == WsMsg("ok", "start", FALSE, "")
WsMedia(p) == WsMsg("ok", "media", TRUE, p)
WsMediaNoPayload == WsMsg("ok", "media", FALSE, "")
WsStop == WsMsg("ok", "stop", FALSE, "")
WsUnknown == WsMsg("ok", "mark", FALSE, "")
WsInvalidJSON == WsMsg("invalid", "", FALSE, "")
WsNull == WsMsg("null", "", FALSE, "")
WsMalformed == {WsMediaNoPayload, WsUnknown, WsInvalidJSON, WsNull}
WsMsgs == {WsStart, WsStop} \cup {WsMedia(p) : p \in Payloads} \cup WsMalformed

\* The function calls the model issues in the bridge specification.
Q_hours == <<"W","h","a","t"," ","a","r","e"," ","y","o","u","r"," ",
             "h","o","u","r","s","?">>
Call(name, args) == [name |-> name, args |-> args]
NoCallInput == Call("", NoArgs)
CallFAQ == Call("getFAQ", Args(Question(Q_hours), "", "", "", ""))
CallFAQNumber == Call("getFAQ", Args(NumberQuestion, "", "", "", ""))
CallSMS == Call("sendSMS", Args(NoQuestion, "", "", "+15551234567", "hello"))
CallUnknown == Call("transferCall", NoArgs)
CallBook == Call("bookSlot", Args(NoQuestion, "wed-0900", "+15551234567", "", ""))
CallInputs == {CallFAQ, CallFAQNumber, CallSMS, CallUnknown}

\* A message arriving on a Model Leg: what JSON.parse makes of it.
RtMsg(parse, type, audio, call) ==
    [parse |-> parse, type |-> type, audio |-> audio, call |-> call]
RtDelta(p) == RtMsg("ok", "audio.delta", p, NoCallInput)
RtFunctionCall(c) == RtMsg("ok", "response.function_call", "", c)
RtError == RtMsg("ok", "error", "", NoCallInput)
RtUnknown == RtMsg("ok", "session.updated", "", NoCallInput)
RtInvalidJSON == RtMsg("invalid", "", "", NoCallInput)
RtNull == RtMsg("null", "", "", NoCallInput)
RtMalformed == {RtUnknown, RtInvalidJSON, RtNull}
RtMsgs == {RtDelta(p) : p \in Payloads} \cup {RtFunctionCall(c) : c \in CallInputs}
          \cup {RtError} \cup RtMalformed

\* The invocations of the tool specification: the questions, slot ids and
\* arguments handleToolCall is applied to.
Q_cigna == <<"D","o"," ","y","o","u"," ","t","a","k","e"," ","C","i","g","n","a","?">>
Q_flight == <<"f","l","i","g","h","t"," ","s","c","h","e","d","u","l","e">>
Q_insurance == <<"I","s"," ","m","y"," ","I","N","S","U","R","A","N","C","E"," ","a",
                 "c","c","e","p","t","e","d","?">>
Phone == "+15551234567"
ToolInputs ==
    {Call("getFAQ", Args(q, "", "", "", "")) :
        q \in {Question(Q_hours), Question(Q_cigna), Question(Q_flight),
               Question(Q_insurance), NoQuestion, NumberQuestion}}
    \cup {Call("getSlots", NoArgs), Call("getSlots", Filtered("2026-11-03", "Dr. Lee", "am"))}
    \cup {Call("bookSlot", Args(NoQuestion, id, ph, "", "")) :
            id \in {"wed-0900", "thu-0800"}, ph \in {"", Phone}}
    \cup {CallSMS, CallUnknown}

\* The invocations of the lookup specification: questions with keywords of
\* two groups, of one group and of none, an empty and a missing question.
Q_hours_parking == <<"H","o","u","r","s"," ","a","n","d"," ","p","a","r","k","i","n","g">>
Q_insurance_location == <<"I","n","s","u","r","a","n","c","e"," ","a","t"," ","t","h","i","s",
                          " ","L","O","C","A","T","I","O","N","?">>
Q_parking_insurance == <<"p","a","r","k","i","n","g"," ","i","n","s","u","r","a","n","c","e">>
Q_new_patient_parking == <<"N","e","w"," ","p","a","t","i","e","n","t"," ",
                           "P","a","r","k","i","n","g">>
Q_new_patients == <<"T","a","k","i","n","g"," ","N","E","W"," ","P","A","T","I","E","N","T","S","?">>
Q_address == <<"y","o","u","r"," ","a","d","d","r","e","s","s">>
Q_empty == <<>>
LookupQuestions ==
    {Question(q) : q \in {Q_hours_parking, Q_insurance_location, Q_parking_insurance,
                          Q_new_patient_parking, Q_new_patients, Q_address, Q_flight,
                          Q_empty}}
    \cup {NoQuestion}
LookupInputs ==
    {Call("getFAQ", Args(q, "", "", "", "")) : q \in LookupQuestions} \cup {CallSMS}

\* The tool specification's records: an invocation awaiting sendSMS, a
\* finished invocation and a call of sendSMS.
Invocation(n, call, result, fillSid) ==
    [n |-> n, call |-> call, result |-> result, fillSid |-> fillSid]
LogEntry(n, call, kind, result) == [n |-> n, call |-> call, kind |-> kind, result |-> result]
SmsCall(n, to) == [n |-> n, to |-> to]

\* ------------------------------------------------------------------- Init
\* The process after start-up, before the connections in `attempts` arrive.
Start(attempts) ==
    /\ hasKey \in BOOLEAN
    /\ live = attempts
    /\ crashed = FALSE
    /\ conn = [s \in Sessions |-> "idle"]
    /\ pc = [s \in Sessions |-> "none"]
    /\ ws = [s \in Sessions |-> "none"]
    /\ rt = [s \in Sessions |-> "none"]
    /\ twilioPing = [s \in Sessions |-> FALSE]
    /\ rtPing = [s \in Sessions |-> FALSE]
    /\ rtOut = [s \in Sessions |-> <<>>]
    /\ wsOut = [s \in Sessions |-> <<>>]
    /\ pending = [s \in Sessions |-> {}]
    /\ calls = [s \in Sessions |-> <<>>]
    /\ dispatched = [s \in Sessions |-> <<>>]
    /\ toolFailed = [s \in Sessions |-> {}]
    /\ negReqs = [s \in Sessions |-> 0]
    /\ negFailed = [s \in Sessions |-> FALSE]
    /\ opens = [s \in Sessions |-> 0]
    /\ mediaIn = [s \in Sessions |-> <<>>]
    /\ stopIn = [s \in Sessions |-> 0]
    /\ deltaIn = [s \in Sessions |-> <<>>]
    /\ fault = [s \in Sessions |-> FALSE]
    /\ nIn = 0
    /\ slots = SLOTS
    /\ reqPath = [s \in Sessions |-> ""]
    /\ wsCloses = [s \in Sessions |-> 0]
    /\ rtCloses = [s \in Sessions |-> 0]
    /\ tLog = <<>>
    /\ tPending = {}
    /\ smsLog = <<>>

Init == Start({"A"})

\* ------------------------------------------------- accept and negotiation
\* handleTwilioMedia up to its first await: the Call Leg keepalive is set and
\* the error and close listeners are registered; without an API key the Call
\* Leg is closed at once, otherwise the negotiation request is issued.
AcceptSession(s) ==
    /\ conn' = [conn EXCEPT ![s] = "accepted"]
    /\ twilioPing' = [twilioPing EXCEPT ![s] = TRUE]
    /\ IF hasKey
       THEN /\ ws' = [ws EXCEPT ![s] = "open"]
            /\ pc' = [pc EXCEPT ![s] = "negotiating"]
            /\ negReqs' = [negReqs EXCEPT ![s] = @ + 1]
       ELSE /\ ws' = [ws EXCEPT ![s] = WsCloseCall("open")]
            /\ pc' = [pc EXCEPT ![s] = "done"]
            /\ UNCHANGED negReqs

\* A path test that also lets the media path with a trailing slash through.
PathMatches_TrailingSlash(path) == path \in {MediaPath, "/twilio-media/"}

\* req.url === "/twilio-media"
PathMatches(path) == path = MediaPath

\* server.on("upgrade"): the media path is handed to handleTwilioMedia; any
\* other path destroys the raw socket.
Upgrade(s, path) ==
    /\ ~crashed
    /\ s \in live
    /\ conn[s] = "idle"
    /\ reqPath' = [reqPath EXCEPT ![s] = path]
    /\ IF PathMatches(path)
       THEN AcceptSession(s)
       ELSE /\ conn' = [conn EXCEPT ![s] = "destroyed"]
            /\ UNCHANGED <<twilioPing, ws, pc, negReqs>>
    /\ UNCHANGED <<rt, rtPing, outVars, toolVars, relayHist, negFailed, opens,
                   fault, procVars, counters, slots, closeRuns, toolIO>>

\* A catch that only logs the failure and leaves the Call Leg open.
NegotiationFails_LogOnly(s) ==
    /\ ~crashed
    /\ pc[s] = "negotiating"
    /\ negFailed' = [negFailed EXCEPT ![s] = TRUE]
    /\ pc' = [pc EXCEPT ![s] = "done"]
    /\ UNCHANGED <<conn, ws, rt, twilioPing, rtPing, outVars, toolVars, relayHist,
                   negReqs, opens, fault, procVars, counters,
                   restVars>>

\* startRealtimeSession rejects (non-success response): the catch closes the
\* Call Leg and handleTwilioMedia returns.
NegotiationFails(s) ==
    /\ ~crashed
    /\ pc[s] = "negotiating"
    /\ negFailed' = [negFailed EXCEPT ![s] = TRUE]
    /\ ws' = [ws EXCEPT ![s] = WsCloseCall(@)]
    /\ pc' = [pc EXCEPT ![s] = "done"]
    /\ UNCHANGED <<conn, rt, twilioPing, rtPing, outVars, toolVars, relayHist,
                   negReqs, opens, fault, procVars, counters,
                   restVars>>

\* startRealtimeSession resolves: the Model Leg socket is created, its
\* keepalive is set and every remaining listener is registered.
NegotiationSucceeds(s) ==
    /\ ~crashed
    /\ pc[s] = "negotiating"
    /\ rt' = [rt EXCEPT ![s] = "connecting"]
    /\ rtPing' = [rtPing EXCEPT ![s] = TRUE]
    /\ pc' = [pc EXCEPT ![s] = "wired"]
    /\ UNCHANGED <<conn, ws, twilioPing, outVars, toolVars, relayHist, negVars,
                   opens, fault, procVars, counters,
                   restVars>>

\* ------------------------------------------------------- Model Leg events
\* An open handler that only logs the connection.
RtOpen_LogOnly(s) ==
    /\ ~crashed
    /\ rt[s] = "connecting"
    /\ rt' = [rt EXCEPT ![s] = "open"]
    /\ opens' = [opens EXCEPT ![s] = @ + 1]
    /\ UNCHANGED <<conn, pc, ws, twilioPing, rtPing, outVars, toolVars, relayHist,
                   negVars, fault, procVars, counters,
                   restVars>>

\* rt.on("open"): the greeting.
RtOpen(s) ==
    /\ ~crashed
    /\ rt[s] = "connecting"
    /\ rt' = [rt EXCEPT ![s] = "open"]
    /\ opens' = [opens EXCEPT ![s] = @ + 1]
    /\ rtOut' = [rtOut EXCEPT ![s] = Append(@, Greeting)]
    /\ UNCHANGED <<conn, pc, ws, twilioPing, rtPing, wsOut, toolVars, relayHist,
                   negVars, fault, procVars, counters,
                   restVars>>

\* A close handler that cancels the keepalive and leaves the Call Leg alone.
RtOnClose_NoCascade(s) ==
    /\ rt' = [rt EXCEPT ![s] = "closed"]
    /\ rtPing' = [rtPing EXCEPT ![s] = FALSE]
    /\ rtCloses' = [rtCloses EXCEPT ![s] = @ + 1]
    /\ UNCHANGED <<conn, pc, ws, twilioPing, outVars, toolVars, relayHist, negVars,
                   opens, fault, procVars, counters,
                   slots, reqPath, wsCloses, toolIO>>

\* rt.on("close"): cancel the Model Leg keepalive, close the Call Leg.
RtOnClose(s) ==
    /\ rt' = [rt EXCEPT ![s] = "closed"]
    /\ rtPing' = [rtPing EXCEPT ![s] = FALSE]
    /\ ws' = [ws EXCEPT ![s] = WsCloseCall(@)]
    /\ rtCloses' = [rtCloses EXCEPT ![s] = @ + 1]
    /\ UNCHANGED <<conn, pc, twilioPing, outVars, toolVars, relayHist, negVars,
                   opens, fault, procVars, counters,
                   slots, reqPath, wsCloses, toolIO>>

\* The Model Leg handshake is refused or times out.
RtConnectFails(s) ==
    /\ ~crashed
    /\ rt[s] = "connecting"
    /\ RtOnClose(s)

\* The open Model Leg is lost (the peer closes it, or a transport error).
RtDrop(s) ==
    /\ ~crashed
    /\ rt[s] = "open"
    /\ RtOnClose(s)

\* rt.on("error"): a transport error on the Model Leg is logged.  The socket
\* library has set the socket CLOSING and destroyed the connection, so
\* nothing more arrives on it, and emits 'close' next.
RtTransportError(s) ==
    /\ ~crashed
    /\ rt[s] \in {"connecting", "open"}
    /\ rt' = [rt EXCEPT ![s] = "errored"]
    /\ UNCHANGED <<conn, pc, ws, twilioPing, rtPing, outVars, toolVars, relayHist,
                   negVars, opens, fault, procVars, counters, restVars>>

\* A close of the Model Leg, requested here or begun by an error, completes.
RtCloseDone(s) ==
    /\ ~crashed
    /\ rt[s] \in {"closing", "errored"}
    /\ RtOnClose(s)

\* -------------------------------------------------------- Call Leg events
\* ws.on("close"): cancel the Call Leg keepalive, close the Model Leg if any.
WsOnClose(s) ==
    /\ ws' = [ws EXCEPT ![s] = "closed"]
    /\ twilioPing' = [twilioPing EXCEPT ![s] = FALSE]
    /\ rt' = [rt EXCEPT ![s] = RtCloseCall(@)]
    /\ wsCloses' = [wsCloses EXCEPT ![s] = @ + 1]
    /\ UNCHANGED <<conn, pc, rtPing, outVars, toolVars, relayHist, negVars,
                   opens, fault, procVars, counters,
                   slots, reqPath, rtCloses, toolIO>>

\* The caller hangs up or the Call Leg transport is lost.
WsDrop(s) ==
    /\ ~crashed
    /\ ws[s] = "open"
    /\ WsOnClose(s)

\* ws.on("error"): a transport error on the Call Leg is logged.  The socket
\* library has set the socket CLOSING and destroyed the connection, so
\* nothing more arrives on it, and emits 'close' next.
WsTransportError(s) ==
    /\ ~crashed
    /\ ws[s] = "open"
    /\ ws' = [ws EXCEPT ![s] = "errored"]
    /\ UNCHANGED <<conn, pc, rt, twilioPing, rtPing, outVars, toolVars, relayHist,
                   negVars, opens, fault, procVars, counters, restVars>>

\* A close of the Call Leg, requested here or begun by an error, completes.
WsCloseDone(s) ==
    /\ ~crashed
    /\ ws[s] \in {"closing", "errored"}
    /\ WsOnClose(s)

\* A media branch that coalesces a payload equal to the one just appended.
OnMedia_Coalescing(s, p) ==
    IF rtOut[s] # <<>> /\ rtOut[s][Len(rtOut[s])] = AudioAppend(p)
    THEN rtOut[s]
    ELSE RtSend(s, AudioAppend(p))

\* A media branch that drops the audio while a tool handler is in flight.
OnMedia_AfterTools(s, p) ==
    IF pending[s] # {} THEN rtOut[s] ELSE RtSend(s, AudioAppend(p))

\* A media branch that writes to the Model Leg whatever its readyState.
OnMedia_Unguarded(s, p) == Append(rtOut[s], AudioAppend(p))

\* The media branch: one append instruction, if the Model Leg is open.
OnMedia(s, p) == RtSend(s, AudioAppend(p))

\* A stop branch that asks for the response before committing the buffer.
StopInstructions_CreateFirst == <<ResponseCreate, Commit>>

\* The stop branch: commit, then the response request.
StopInstructions == <<Commit, ResponseCreate>>
OnStop(s) == IF rt[s] = "open" THEN rtOut[s] \o StopInstructions ELSE rtOut[s]

\* ws.on("message"), registered once negotiation has succeeded; a message
\* that arrives earlier finds no listener.
WsMessage(s, m) ==
    /\ ~crashed
    /\ ws[s] = "open"
    /\ nIn < MaxEvents
    /\ nIn' = nIn + 1
    /\ IF pc[s] = "wired" /\ m.parse = "ok" /\ m.event = "media" /\ m.hasMedia
       THEN /\ rtOut' = [rtOut EXCEPT ![s] = OnMedia(s, m.payload)]
            /\ mediaIn' = [mediaIn EXCEPT ![s] =
                              IF Active(s) THEN Append(@, m.payload) ELSE @]
            /\ UNCHANGED stopIn
       ELSE IF pc[s] = "wired" /\ m.parse = "ok" /\ m.event = "stop"
       THEN /\ rtOut' = [rtOut EXCEPT ![s] = OnStop(s)]
            /\ stopIn' = [stopIn EXCEPT ![s] = IF Active(s) THEN @ + 1 ELSE @]
            /\ UNCHANGED mediaIn
       ELSE UNCHANGED <<rtOut, mediaIn, stopIn>>
    /\ UNCHANGED <<conn, pc, legVars, wsOut, toolVars, deltaIn, negVars, opens,
                   fault, procVars,
                   restVars>>

\* ------------------------------------------- Model Leg messages and tools
\* An unhandled rejection: the runtime either only reports it or terminates
\* the process, which takes every socket and timer with it.
Terminate ==
    /\ crashed' = TRUE
    /\ ws' = [t \in Sessions |-> IF ws[t] = "none" THEN "none" ELSE "closed"]
    /\ rt' = [t \in Sessions |-> IF rt[t] = "none" THEN "none" ELSE "closed"]
    /\ pc' = [t \in Sessions |-> IF pc[t] = "none" THEN "none" ELSE "done"]
    /\ twilioPing' = [t \in Sessions |-> FALSE]
    /\ rtPing' = [t \in Sessions |-> FALSE]
    /\ pending' = [t \in Sessions |-> {}]

\* An audio branch that puts the newest chunk ahead of the frames already sent.
OnDelta_NewestFirst(s, audio) ==
    IF ws[s] = "open" THEN <<MediaFrame(audio)>> \o wsOut[s] ELSE wsOut[s]

\* The audio.delta branch: one media frame on the Call Leg.
OnDelta(s, audio) == WsSend(s, MediaFrame(audio))

\* A result that is sent a second time.
SendResult_Twice(s, cid, result) ==
    IF rt[s] = "open"
    THEN rtOut[s] \o <<FunctionCallOutput(cid, result), FunctionCallOutput(cid, result)>>
    ELSE rtOut[s]

\* A result that is written to the Model Leg whatever its readyState.
SendResult_Unguarded(s, cid, result) == Append(rtOut[s], FunctionCallOutput(cid, result))

\* A result that is sent on a Model Leg variable shared by all sessions.
SendResult_SharedLeg(s, cid, result) ==
    IF rt[s] = "open"
    THEN Append(rtOut["A"], FunctionCallOutput(cid, result))
    ELSE rtOut[s]

\* The function_call branch once handleToolCall has resolved: the correlated result.
SendResult(s, cid, result) == RtSend(s, FunctionCallOutput(cid, result))

\* A booking that takes the slot off the shared list.
BookSlotLeaves_Removing(found) == SelectSeq(slots, LAMBDA x : x.id # found.id)

\* The bookSlot branch reads SLOTS and never writes it.
BookSlotLeaves(found) == slots

\* rt.on("message"): a message is delivered on an open Model Leg and on one
\* that is closing after it had opened (a handshake aborted by close()
\* delivers none).
RtMessage(s, e) ==
    /\ ~crashed
    /\ rt[s] = "open" \/ (rt[s] = "closing" /\ opens[s] > 0)
    /\ nIn < MaxEvents
    /\ nIn' = nIn + 1
    /\ IF e.parse = "null"
       THEN /\ fault' = [fault EXCEPT ![s] = TRUE]
            /\ \/ Terminate
               \/ UNCHANGED <<crashed, ws, rt, pc, twilioPing, rtPing, pending>>
            /\ UNCHANGED <<outVars, calls, dispatched, toolFailed, deltaIn>>
       ELSE IF e.parse = "ok" /\ e.type = "audio.delta"
       THEN /\ wsOut' = [wsOut EXCEPT ![s] = OnDelta(s, e.audio)]
            /\ deltaIn' = [deltaIn EXCEPT ![s] =
                  Append(@, [payload |-> e.audio, wsOpen |-> ws[s] = "open",
                             callsBefore |-> Len(calls[s])])]
            /\ UNCHANGED <<crashed, ws, rt, pc, twilioPing, rtPing, rtOut,
                           toolVars, fault>>
       ELSE IF e.parse = "ok" /\ e.type = "response.function_call"
       THEN LET cid == <<s, Len(calls[s]) + 1>>
                r == handleToolCall(e.call.name, e.call.args)
            IN /\ calls' = [calls EXCEPT ![s] =
                     Append(@, [call_id |-> cid, call |-> e.call,
                                active |-> Active(s)])]
               /\ dispatched' = [dispatched EXCEPT ![s] = Append(@, cid)]
               /\ rtOut' = [rtOut EXCEPT ![s] =
                     IF r.kind = "return"
                     THEN SendResult(s, cid, r.result)
                     ELSE @]
               /\ toolFailed' = [toolFailed EXCEPT ![s] =
                     IF r.kind = "throw" THEN @ \cup {cid} ELSE @]
               /\ pending' = [pending EXCEPT ![s] =
                     IF r.kind = "sms"
                     THEN @ \cup {[call_id |-> cid, result |-> r.result,
                                   fillSid |-> r.fillSid]}
                     ELSE @]
               /\ UNCHANGED <<crashed, ws, rt, pc, twilioPing, rtPing, wsOut,
                              deltaIn, fault>>
       ELSE UNCHANGED <<crashed, ws, rt, pc, twilioPing, rtPing, outVars,
                        toolVars, deltaIn, fault>>
    /\ slots' = IF e.parse = "ok" /\ e.type = "response.function_call"
                    /\ e.call.name = "bookSlot" /\ FindSlot(e.call.args.slotId) # NoSlot
                 THEN BookSlotLeaves(FindSlot(e.call.args.slotId))
                 ELSE slots
    /\ UNCHANGED <<hasKey, live, conn, mediaIn, stopIn, negVars, opens,
                   reqPath, closeRuns, toolIO>>

\* sendSMS resolves: handleToolCall returns and the result is sent.
SmsResolves(s, c) ==
    /\ ~crashed
    /\ c \in pending[s]
    /\ pending' = [pending EXCEPT ![s] = @ \ {c}]
    /\ rtOut' = [rtOut EXCEPT ![s] =
          SendResult(s, c.call_id,
                     IF c.fillSid THEN [c.result EXCEPT !.sid = Sid] ELSE c.result)]
    /\ UNCHANGED <<conn, pc, legVars, wsOut, calls, dispatched, toolFailed,
                   relayHist, negVars, opens, fault, procVars, counters,
                   restVars>>

\* A catch that gives the session up when a tool fails.
SmsRejects_Fatal(s, c) ==
    /\ ~crashed
    /\ c \in pending[s]
    /\ pending' = [pending EXCEPT ![s] = @ \ {c}]
    /\ toolFailed' = [toolFailed EXCEPT ![s] = @ \cup {c.call_id}]
    /\ ws' = [ws EXCEPT ![s] = WsCloseCall(@)]
    /\ UNCHANGED <<conn, pc, rt, twilioPing, rtPing, outVars, calls, dispatched,
                   relayHist, negVars, opens, fault, procVars, counters,
                   restVars>>

\* sendSMS rejects: handleToolCall rejects, the catch logs it.
SmsRejects(s, c) ==
    /\ ~crashed
    /\ c \in pending[s]
    /\ pending' = [pending EXCEPT ![s] = @ \ {c}]
    /\ toolFailed' = [toolFailed EXCEPT ![s] = @ \cup {c.call_id}]
    /\ UNCHANGED <<conn, pc, legVars, outVars, calls, dispatched,
                   relayHist, negVars, opens, fault, procVars, counters,
                   restVars>>

\* ------------------------------------------------------- specifications
\* One step of the program or of its environment, the inbound messages
\* drawn from the given sets.  A leg that is lost closes in the same step
\* (RtDrop, WsDrop).
Step(wsMsgs, rtMsgs) ==
    \E s \in Sessions :
        \/ \E path \in Paths : Upgrade(s, path)
        \/ NegotiationFails(s)
        \/ NegotiationSucceeds(s)
        \/ RtOpen(s)
        \/ RtConnectFails(s)
        \/ RtDrop(s)
        \/ RtCloseDone(s)
        \/ WsDrop(s)
        \/ WsCloseDone(s)
        \/ \E m \in wsMsgs : WsMessage(s, m)
        \/ \E e \in rtMsgs : RtMessage(s, e)
        \/ \E c \in pending[s] : SmsResolves(s, c)
        \/ \E c \in pending[s] : SmsRejects(s, c)

Next == Step(WsMsgs, RtMsgs)

Spec == Init /\ [][Next]_vars

\* The liveness specification: one inbound message of each kind that bears
\* on how a session ends, and the transport errors, which the socket library
\* reports before the close.
FairWsMsgs == {WsMedia("p1"), WsStop}
FairRtMsgs == {RtDelta("p1"), RtFunctionCall(CallSMS), RtError, RtNull}
FairNext ==
    \/ Step(FairWsMsgs, FairRtMsgs)
    \/ \E s \in Sessions : WsTransportError(s)
    \/ \E s \in Sessions : RtTransportError(s)

\* The two-session specification: two calls are bridged at the same time,
\* each relaying audio while the model reserves a slot.
CallSlots == Call("getSlots", NoArgs)
TwoWsMsgs == {WsMedia("p1")}
TwoRtMsgs == {RtDelta("p1"), RtFunctionCall(CallBook)}
TwoInit == Start(Sessions) /\ hasKey
TwoNext == Step(TwoWsMsgs, TwoRtMsgs)
TwoSpec == TwoInit /\ [][TwoNext]_vars

\* The reservation specification: the model reserves a slot, with a
\* notification, while audio is relayed.
BookRtMsgs == {RtFunctionCall(CallBook), RtDelta("p1")}
BookNext == Step(FairWsMsgs, BookRtMsgs)
BookSpec == Init /\ [][BookNext]_vars

\* A close handshake this program started always completes (the socket
\* library destroys the socket when its close timer runs out), and the
\* negotiation request and the Model Leg handshake each end one way or the
\* other.  Nothing obliges a peer to hang up, a message to arrive or the
\* notification collaborator to answer.
Fairness ==
    \A s \in Sessions :
        /\ WF_vars(WsCloseDone(s))
        /\ WF_vars(RtCloseDone(s))
        /\ WF_vars(NegotiationFails(s) \/ NegotiationSucceeds(s))
        /\ WF_vars(RtOpen(s) \/ RtConnectFails(s))

FairSpec == Init /\ [][FairNext]_vars /\ Fairness

\* --------------------------------------------------- the tool router alone
\* What belongs to the sessions; the tool specification leaves it alone.
bridgeVars == <<hasKey, live, crashed, conn, pc, legVars, outVars, toolVars, negVars,
                opens, relayHist, fault, nIn, reqPath, closeRuns>>

\* The slot list after an invocation of handleToolCall.
SlotsAfter(call) ==
    IF call.name = "bookSlot" /\ FindSlot(call.args.slotId) # NoSlot
    THEN BookSlotLeaves(FindSlot(call.args.slotId))
    ELSE slots

\* handleToolCall(name, args) is invoked and runs to its first wait for I/O.
ToolInvoke(c) ==
    LET n == Len(tLog) + Cardinality(tPending) + 1
        r == handleToolCall(c.name, c.args)
    IN /\ n <= MaxToolCalls
       /\ slots' = SlotsAfter(c)
       /\ IF r.kind = "sms"
          THEN /\ tPending' = tPending \cup {Invocation(n, c, r.result, r.fillSid)}
               /\ smsLog' = Append(smsLog, SmsCall(n, r.to))
               /\ UNCHANGED tLog
          ELSE /\ tLog' = Append(tLog, LogEntry(n, c, IF r.kind = "return" THEN "return" ELSE "reject",
                                                 r.result))
               /\ UNCHANGED <<tPending, smsLog>>
       /\ UNCHANGED bridgeVars

\* sendSMS resolves and the invocation returns its result.
ToolSmsResolves(v) ==
    /\ v \in tPending
    /\ tPending' = tPending \ {v}
    /\ tLog' = Append(tLog, LogEntry(v.n, v.call, "return",
                                     IF v.fillSid THEN [v.result EXCEPT !.sid = Sid]
                                     ELSE v.result))
    /\ UNCHANGED <<slots, smsLog, bridgeVars>>

\* sendSMS rejects and the invocation rejects with it.
ToolSmsRejects(v) ==
    /\ v \in tPending
    /\ tPending' = tPending \ {v}
    /\ tLog' = Append(tLog, LogEntry(v.n, v.call, "reject", NoResult))
    /\ UNCHANGED <<slots, smsLog, bridgeVars>>

ToolNext ==
    \/ \E c \in ToolInputs : ToolInvoke(c)
    \/ \E v \in tPending : ToolSmsResolves(v)
    \/ \E v \in tPending : ToolSmsRejects(v)

\* The process with its API key set and no call arriving.
ToolInit == Start({}) /\ hasKey
ToolSpec == ToolInit /\ [][ToolNext]_vars

\* The tool router applied to lookups, with the notification tool beside them.
LookupNext ==
    \/ \E c \in LookupInputs : ToolInvoke(c)
    \/ \E v \in tPending : ToolSmsResolves(v)
    \/ \E v \in tPending : ToolSmsRejects(v)

LookupSpec == ToolInit /\ [][LookupNext]_vars

\* ------------------------------------------------------------ observations
Times(seq, x) == Cardinality({i \in 1..Len(seq) : seq[i] = x})
IsOutput(m) == m.type = "response.function_call_output"
IsAppend(m) == m.type = "input_audio_buffer.append"
\* Number of function_call_output messages sent on s's Model Leg with call_id cid.
Outputs(s, cid) ==
    Cardinality({i \in 1..Len(rtOut[s]) : IsOutput(rtOut[s][i]) /\ rtOut[s][i].call_id = cid})
PendingIds(s) == {c.call_id : c \in pending[s]}
ReceivedIds(s) == {calls[s][i].call_id : i \in 1..Len(calls[s])}
\* The audio of the append instructions sent on s's Model Leg, in order.
AppendedAudio(s) ==
    LET a == SelectSeq(rtOut[s], IsAppend) IN [i \in 1..Len(a) |-> a[i].audio]
\* The payloads of the frames sent on s's Call Leg, in order.
FramePayloads(s) == [i \in 1..Len(wsOut[s]) |-> wsOut[s][i].payload]
DeltaOpen(d) == d.wsOpen
\* The payloads of the audio.delta chunks received, in order: all of them, and
\* those received while the Call Leg was open.
DeltaPayloads(s) == [i \in 1..Len(deltaIn[s]) |-> deltaIn[s][i].payload]
DeltaPayloadsOpen(s) ==
    LET d == SelectSeq(deltaIn[s], DeltaOpen) IN [i \in 1..Len(d) |-> d[i].payload]

\* ------------------------------------------------------------------ claims

\* C1: every function-call event received while the session is ACTIVE gets
\* exactly one function_call_output with its call_id once its handler has
\* finished, whether the handler returned or failed.
C1_ExactlyOneResult ==
    \A s \in Sessions : \A i \in 1..Len(calls[s]) :
        (calls[s][i].active /\ calls[s][i].call_id \notin PendingIds(s))
            => Outputs(s, calls[s][i].call_id) = 1

\* C2: each function-call event is dispatched at most once and answered by at
\* most one function_call_output, and every function_call_output sent on a
\* Model Leg carries the call_id of an event received on that Model Leg.
C2_AtMostOnce ==
    \A s \in Sessions :
        /\ \A cid \in ReceivedIds(s) :
              /\ Times(dispatched[s], cid) <= 1
              /\ Outputs(s, cid) <= 1
              /\ (cid \in PendingIds(s) => Outputs(s, cid) = 0)
        /\ \A i \in 1..Len(rtOut[s]) :
              IsOutput(rtOut[s][i]) => rtOut[s][i].call_id \in ReceivedIds(s)

\* C2 witness: a slow handler has delivered its result after a later call was
\* already answered.
C2_Witness ==
    \E s \in Sessions : \E i, j \in 1..Len(rtOut[s]) :
        /\ i < j
        /\ IsOutput(rtOut[s][i]) /\ IsOutput(rtOut[s][j])
        /\ rtOut[s][j].output.sid = Sid
        /\ rtOut[s][j].call_id[2] < rtOut[s][i].call_id[2]

\* C3: for every stop received while ACTIVE exactly one commit is sent,
\* immediately followed by exactly one plain response.create.
C3_CommitThenCreate ==
    \A s \in Sessions :
        /\ Times(rtOut[s], Commit) = stopIn[s]
        /\ Times(rtOut[s], ResponseCreate) = stopIn[s]
        /\ \A i \in 1..Len(rtOut[s]) :
              /\ rtOut[s][i] = Commit =>
                    i < Len(rtOut[s]) /\ rtOut[s][i + 1] = ResponseCreate
              /\ rtOut[s][i] = ResponseCreate => i > 1 /\ rtOut[s][i - 1] = Commit

\* C3 witness: two stops in succession, each answered by its own pair.
C3_Witness ==
    \E s \in Sessions :
        /\ stopIn[s] = 2
        /\ rtOut[s] = <<Greeting, Commit, ResponseCreate, Commit, ResponseCreate>>

\* C4: the append instructions sent on the Model Leg carry exactly the
\* payloads of the media events received while ACTIVE, in receipt order.
C4_AppendPerMedia ==
    \A s \in Sessions : AppendedAudio(s) = mediaIn[s]

\* C4 witness: two media events with different payloads were relayed.
C4_Witness ==
    \E s \in Sessions : mediaIn[s] = <<"p2", "p1">> /\ AppendedAudio(s) = <<"p2", "p1">>

\* C5 (as claimed): every audio.delta chunk received on the Model Leg becomes
\* exactly one Call Leg media frame with its payload, in arrival order.
C5_EveryDeltaRelayed ==
    \A s \in Sessions : FramePayloads(s) = DeltaPayloads(s)

\* C5 (amended): every audio.delta chunk received while the Call Leg is open
\* becomes exactly one Call Leg media frame with its payload, in arrival
\* order; a chunk received when the Call Leg is not open yields no frame.
C5_DeltaRelayedWhileOpen ==
    \A s \in Sessions :
        /\ FramePayloads(s) = DeltaPayloadsOpen(s)
        /\ \A i \in 1..Len(wsOut[s]) : wsOut[s][i].event = "media"

\* C5 witness: two chunks with a function-call event between them, relayed in order.
C5_Witness ==
    \E s \in Sessions :
        /\ Len(deltaIn[s]) = 2
        /\ deltaIn[s][1].callsBefore = 0 /\ deltaIn[s][2].callsBefore = 1
        /\ deltaIn[s][1].wsOpen /\ deltaIn[s][2].wsOpen
        /\ FramePayloads(s) = <<"p2", "p1">>

\* C6: whenever the Call Leg has closed, at whatever point of the session's
\* life, the session eventually reaches CLOSED (both legs closed, nothing of
\* the session left to run) and stays there.
C6_CallLegCloseReachesClosed ==
    \A s \in Sessions : [](ws[s] = "closed" => <>[]Closed(s))

\* C7: once the Model Leg has closed, the Call Leg is no longer open, the
\* session reaches CLOSED, and no Model Leg is connected again nor a further
\* negotiation request issued.
C7_ModelLegCloseCascades ==
    /\ \A s \in Sessions : [](rt[s] = "closed" => ws[s] # "open")
    /\ \A s \in Sessions : (rt[s] = "closed") ~> Closed(s)
    /\ [][\A s \in Sessions :
            rt[s] = "closed" => rt'[s] = "closed" /\ negReqs'[s] = negReqs[s]]_vars

\* C7 witness: the Model Leg has closed while the Call Leg was open, and the
\* Call Leg is closing because of it.
C7_Witness ==
    \E s \in Sessions :
        rt[s] = "closed" /\ opens[s] = 1 /\ ws[s] = "closing" /\ ~crashed

\* C8: at most one negotiation request per session; after a failed
\* negotiation the Call Leg is closed (closing, then closed) and no Model Leg
\* connection or Model Leg keepalive exists.
C8_NegotiationFailureIsFatal ==
    \A s \in Sessions :
        /\ negReqs[s] <= 1
        /\ negFailed[s] =>
              /\ negReqs[s] = 1
              /\ ws[s] \in {"closing", "closed"}
              /\ rt[s] = "none"
              /\ ~rtPing[s]
              /\ opens[s] = 0

\* C8 witness: the negotiation failed and the Call Leg has closed.
C8_Witness ==
    \E s \in Sessions : negFailed[s] /\ ws[s] = "closed" /\ pc[s] = "done"

\* C9: the greeting response.create is sent once, when the Model Leg opens,
\* and nothing is sent on the Model Leg before it.
C9_GreetingFirstOnce ==
    \A s \in Sessions :
        /\ opens[s] <= 1
        /\ Times(rtOut[s], Greeting) = opens[s]
        /\ rtOut[s] # <<>> => rtOut[s][1] = Greeting
        /\ rt[s] = "open" => opens[s] = 1

\* C9 witness: the greeting, followed by relayed instructions.
C9_Witness ==
    \E s \in Sessions :
        /\ Len(rtOut[s]) >= 3
        /\ rtOut[s][1] = Greeting
        /\ IsAppend(rtOut[s][2])
        /\ IsOutput(rtOut[s][3])

\* C10: a malformed inbound message on either leg is discarded: the step
\* that delivers it sends nothing, closes nothing, raises nothing and leaves
\* every part of the session as it was.
C10_MalformedDiscarded ==
    [][(\E s \in Sessions :
           \/ \E m \in WsMalformed : WsMessage(s, m)
           \/ \E e \in RtMalformed : RtMessage(s, e))
       => UNCHANGED <<conn, pc, legVars, outVars, toolVars, relayHist, negVars,
                      opens, fault, procVars>>]_vars

\* C11: a connection is accepted, and a session created for it, only when the
\* upgrade request's path is exactly the media path; for any other path the
\* raw connection is destroyed and there is no Call Leg, no session, no
\* keepalive, no negotiation request and nothing sent.
C11_OnlyMediaPathAccepted ==
    \A s \in Sessions :
        /\ conn[s] = "accepted" <=> reqPath[s] = MediaPath
        /\ (conn[s] # "idle" /\ reqPath[s] # MediaPath) =>
              /\ conn[s] = "destroyed"
              /\ ws[s] = "none" /\ rt[s] = "none" /\ pc[s] = "none"
              /\ ~twilioPing[s] /\ ~rtPing[s]
              /\ negReqs[s] = 0
              /\ rtOut[s] = <<>> /\ wsOut[s] = <<>>

\* C11 witness: an upgrade for the media path with a trailing slash was destroyed.
C11_Witness ==
    \E s \in Sessions : reqPath[s] = "/twilio-media/" /\ conn[s] = "destroyed"

\* The finished lookups of the tool specification whose question is q.
Lookups(q) ==
    {i \in 1..Len(tLog) : tLog[i].call.name = "getFAQ"
                          /\ tLog[i].call.args.question = Question(q)}
Answered(i, a) == tLog[i].kind = "return" /\ tLog[i].result.answer = a

\* C12: lookup("What are your hours?") returns the hours string,
\* lookup("Do you take Cigna?") the insurance string and
\* lookup("flight schedule") the deflection string.
C12_LookupExamples ==
    /\ \A i \in Lookups(Q_hours) : Answered(i, FAQ_hours)
    /\ \A i \in Lookups(Q_cigna) : Answered(i, FAQ_insurance)
    /\ \A i \in Lookups(Q_flight) : Answered(i, Deflection)

\* The finished reservations of the tool specification.
Reservations == {i \in 1..Len(tLog) : tLog[i].call.name = "bookSlot"}
SlotIds == {SLOTS[i].id : i \in 1..Len(SLOTS)}
SlotOf(id) == SLOTS[CHOOSE i \in 1..Len(SLOTS) : SLOTS[i].id = id]
Notified(n) == \E j \in 1..Len(smsLog) : smsLog[j].n = n

\* C13: a reserve whose slotId is in the slot list returns a success result
\* whose booked slot is that slot, "wed-0900" giving the label
\* "Wed 9:00 AM (Dr. Lee)"; a reserve whose slotId is not in the list returns
\* the failure "Slot not found" and calls the notification collaborator not at all.
C13_ReserveResult ==
    \A i \in Reservations :
        LET e == tLog[i]
            id == e.call.args.slotId
        IN IF id \in SlotIds
           THEN /\ e.kind = "return"
                /\ e.result.ok = "true"
                /\ e.result.booked = SlotOf(id)
                /\ id = "wed-0900" => e.result.booked.label = "Wed 9:00 AM (Dr. Lee)"
           ELSE /\ e.kind = "return"
                /\ e.result.ok = "false"
                /\ e.result.error = "Slot not found"
                /\ ~Notified(e.n)

\* C14: the notification of a reserve on a known slot is best-effort: the
\* handler never fails, every result sent for the call is the success result
\* with the slot, and once the handler has finished in a session that has
\* been ACTIVE throughout, that result has been sent with the call's call_id.
C14_NotificationBestEffort ==
    \A s \in Sessions : \A i \in 1..Len(calls[s]) :
        LET c == calls[s][i]
            id == c.call.args.slotId
        IN (c.call.name = "bookSlot" /\ id \in SlotIds) =>
              /\ c.call_id \notin toolFailed[s]
              /\ \A j \in 1..Len(rtOut[s]) :
                    (IsOutput(rtOut[s][j]) /\ rtOut[s][j].call_id = c.call_id) =>
                        /\ rtOut[s][j].output.ok = "true"
                        /\ rtOut[s][j].output.booked = SlotOf(id)
              /\ (c.active /\ Active(s) /\ c.call_id \notin PendingIds(s)) =>
                    Outputs(s, c.call_id) = 1

\* C15: in every reachable state list-options returns the whole slot list,
\* whatever its date, provider and window arguments and whatever reserve
\* calls came before, and a reserve of a listed slotId finds the slot however
\* often it is repeated.
C15_SlotListStatic ==
    /\ slots = SLOTS
    /\ \A c \in ToolInputs :
          c.name = "getSlots" =>
              handleToolCall(c.name, c.args) = Return(Result("absent", "", "", SLOTS, NoSlot, ""))
    /\ \A i \in 1..Len(tLog) :
          /\ tLog[i].call.name = "getSlots" =>
                (tLog[i].kind = "return" /\ tLog[i].result.slots = SLOTS)
          /\ (tLog[i].call.name = "bookSlot" /\ tLog[i].call.args.slotId \in SlotIds) =>
                tLog[i].result.error # "Slot not found"

\* C15 witness: the same slot was reserved twice and found both times, and a
\* list-options with date, provider and window then returned the whole list.
C15_Witness ==
    /\ Len(tLog) = 3
    /\ tLog[1].call = Call("bookSlot", Args(NoQuestion, "wed-0900", "", "", ""))
    /\ tLog[2].call = tLog[1].call
    /\ tLog[1].result.booked = SlotOf("wed-0900")
    /\ tLog[2].result.booked = SlotOf("wed-0900")
    /\ tLog[3].call = Call("getSlots", Filtered("2026-11-03", "Dr. Lee", "am"))
    /\ tLog[3].result.slots = SLOTS

\* C16: with two sessions running at once, a function_call_output is sent
\* only on the Model Leg of the session that received the call, the audio
\* relayed on a session's Model Leg and Call Leg is exactly that session's
\* own, and whatever has been reserved in either session, list-options
\* returns the whole slot list.
C16_SessionsIsolated ==
    /\ slots = SLOTS
    /\ handleToolCall(CallSlots.name, CallSlots.args)
          = Return(Result("absent", "", "", SLOTS, NoSlot, ""))
    /\ \A s \in Sessions :
          /\ \A i \in 1..Len(rtOut[s]) :
                IsOutput(rtOut[s][i]) =>
                    /\ rtOut[s][i].call_id[1] = s
                    /\ rtOut[s][i].call_id \in ReceivedIds(s)
          /\ \A t \in Sessions \ {s} : \A cid \in ReceivedIds(t) : Outputs(s, cid) = 0
          /\ AppendedAudio(s) = mediaIn[s]
          /\ FramePayloads(s) = DeltaPayloadsOpen(s)

\* C16 witness: one session has been sent the result of its reservation
\* while the reservation of the other still awaits its notification, and
\* only the second has relayed a chunk.
C16_Witness ==
    /\ Active("A") /\ Active("B")
    /\ Outputs("A", <<"A", 1>>) = 1
    /\ \E c \in pending["B"] : c.result.booked = SlotOf("wed-0900")
    /\ wsOut["B"] = <<MediaFrame("p1")>>
    /\ wsOut["A"] = <<>>

\* C17: while a function-call handler of an ACTIVE session is pending, a
\* media event is still appended, a stop still commits and requests the
\* response, an audio.delta still becomes a Call Leg frame, a later call
\* whose handler returns at once has its result sent at once, and a pending
\* handler that finishes sends its own result and leaves the others pending.
C17_RelayDuringToolCall ==
    [][\A s \in Sessions :
          (Active(s) /\ pending[s] # {}) =>
              /\ \A p \in Payloads :
                    WsMessage(s, WsMedia(p)) =>
                        /\ rtOut'[s] = Append(rtOut[s], AudioAppend(p))
                        /\ UNCHANGED <<pending, wsOut>>
              /\ WsMessage(s, WsStop) =>
                    /\ rtOut'[s] = rtOut[s] \o <<Commit, ResponseCreate>>
                    /\ UNCHANGED <<pending, wsOut>>
              /\ \A p \in Payloads :
                    RtMessage(s, RtDelta(p)) =>
                        /\ wsOut'[s] = Append(wsOut[s], MediaFrame(p))
                        /\ UNCHANGED <<pending, rtOut>>
              /\ \A c \in CallInputs :
                    (RtMessage(s, RtFunctionCall(c))
                     /\ handleToolCall(c.name, c.args).kind = "return") =>
                        /\ rtOut'[s] = Append(rtOut[s],
                              FunctionCallOutput(<<s, Len(calls[s]) + 1>>,
                                                 handleToolCall(c.name, c.args).result))
                        /\ UNCHANGED <<pending, wsOut>>
              /\ \A c \in pending[s] :
                    SmsResolves(s, c) =>
                        /\ Len(rtOut'[s]) = Len(rtOut[s]) + 1
                        /\ rtOut'[s][Len(rtOut'[s])].call_id = c.call_id
                        /\ pending'[s] = pending[s] \ {c}
                        /\ UNCHANGED wsOut
      ]_vars

\* C17 witness: the first call is still pending; after it arrived a chunk was
\* relayed to the Call Leg and a second call was answered.
C17_Witness ==
    \E s \in Sessions :
        /\ Active(s)
        /\ PendingIds(s) = {<<s, 1>>}
        /\ Outputs(s, <<s, 2>>) = 1
        /\ \E i \in 1..Len(deltaIn[s]) : deltaIn[s][i].callsBefore >= 1 /\ deltaIn[s][i].wsOpen
        /\ wsOut[s] # <<>>

\* C18: closing one leg cancels both keepalive timers: once either leg of a
\* session has closed, the session comes to a state from which neither its
\* Call Leg keepalive nor its Model Leg keepalive is ever set again, also
\* when the Call Leg closes while the negotiation is in flight.
C18_CloseCancelsBothTimers ==
    \A s \in Sessions :
        []((ws[s] = "closed" \/ rt[s] = "closed") => <>[](~twilioPing[s] /\ ~rtPing[s]))

\* C19: an error puts the session into CLOSING like a close does: the handler
\* of an `error` event received on the Model Leg of an ACTIVE session leaves
\* a leg of the session closing, and after a transport error on either leg
\* the session reaches CLOSED.
C19_ErrorClosesSession ==
    /\ [][\A s \in Sessions :
             (Active(s) /\ RtMessage(s, RtError)) => (ws'[s] # "open" \/ rt'[s] # "open")]_vars
    /\ \A s \in Sessions :
          []((ws[s] = "errored" \/ rt[s] = "errored") => <>[]Closed(s))

\* C20: each leg's close handler runs at most once in a session; once it has
\* run the leg is closed and stays closed and its keepalive stays cancelled,
\* whatever close the other leg's handler requests on it afterwards.
C20_CloseCascadeIdempotent ==
    \A s \in Sessions :
        /\ wsCloses[s] <= 1
        /\ rtCloses[s] <= 1
        /\ wsCloses[s] = 1 => (ws[s] = "closed" /\ ~twilioPing[s])
        /\ rtCloses[s] = 1 => (rt[s] = "closed" /\ ~rtPing[s])

\* C20 witness: both close handlers have run, the second of them requesting a
\* close of the leg that had closed first, and the session is CLOSED.
C20_Witness ==
    \E s \in Sessions :
        /\ wsCloses[s] = 1 /\ rtCloses[s] = 1
        /\ opens[s] = 1
        /\ Closed(s)
        /\ ~crashed

\* C21: CLOSED is terminal: from a state in which both legs of a session are
\* closed, no step sends anything on either leg or changes the session's
\* legs, timers, connection or position, and a tool handler dispatched
\* before the close that finishes afterwards only leaves the pending set.
C21_ClosedIsTerminal ==
    [][\A s \in Sessions :
          Closed(s) =>
              /\ rtOut'[s] = rtOut[s]
              /\ wsOut'[s] = wsOut[s]
              /\ ws'[s] = ws[s] /\ rt'[s] = rt[s]
              /\ twilioPing'[s] = twilioPing[s] /\ rtPing'[s] = rtPing[s]
              /\ conn'[s] = conn[s] /\ pc'[s] = pc[s]
              /\ calls'[s] = calls[s]
              /\ mediaIn'[s] = mediaIn[s] /\ stopIn'[s] = stopIn[s] /\ deltaIn'[s] = deltaIn[s]
              /\ pending'[s] \subseteq pending[s]
      ]_vars

\* C21 witness: the session is CLOSED, and the notification tool dispatched
\* while it was ACTIVE has resolved without its result being sent.
C21_Witness ==
    \E s \in Sessions : \E i \in 1..Len(calls[s]) :
        /\ Closed(s) /\ ~crashed
        /\ calls[s][i].active
        /\ calls[s][i].call = CallSMS
        /\ calls[s][i].call_id \notin PendingIds(s)
        /\ calls[s][i].call_id \notin toolFailed[s]
        /\ Outputs(s, calls[s][i].call_id) = 0

\* C22: a tool handler that fails is caught: the step in which it fails sends
\* nothing, closes no leg, cancels no timer and terminates nothing; no
\* function_call_output is ever sent for the failed call_id; and in a session
\* that is ACTIVE after a failure, audio is still relayed in both directions
\* and a later call whose handler returns is answered.
C22_ToolFailureCaught ==
    [][\A s \in Sessions :
          /\ toolFailed'[s] # toolFailed[s] =>
                /\ rtOut'[s] = rtOut[s] /\ wsOut'[s] = wsOut[s]
                /\ ws'[s] = ws[s] /\ rt'[s] = rt[s]
                /\ twilioPing'[s] = twilioPing[s] /\ rtPing'[s] = rtPing[s]
                /\ UNCHANGED <<crashed, fault>>
          /\ \A cid \in toolFailed'[s] :
                \A i \in 1..Len(rtOut'[s]) :
                    ~(IsOutput(rtOut'[s][i]) /\ rtOut'[s][i].call_id = cid)
          /\ (Active(s) /\ toolFailed[s] # {}) =>
                /\ \A p \in Payloads :
                      /\ WsMessage(s, WsMedia(p)) =>
                            rtOut'[s] = Append(rtOut[s], AudioAppend(p))
                      /\ RtMessage(s, RtDelta(p)) =>
                            wsOut'[s] = Append(wsOut[s], MediaFrame(p))
                /\ RtMessage(s, RtFunctionCall(CallFAQ)) =>
                      /\ Len(rtOut'[s]) = Len(rtOut[s]) + 1
                      /\ IsOutput(rtOut'[s][Len(rtOut'[s])])
                      /\ rtOut'[s][Len(rtOut'[s])].call_id = <<s, Len(calls[s]) + 1>>
      ]_vars

\* C22 witness: the notification tool of the first call has failed; the
\* session is still ACTIVE with both keepalives set, the second call has its
\* result and a chunk that came after both calls was relayed.
C22_Witness ==
    \E s \in Sessions :
        /\ Active(s) /\ twilioPing[s] /\ rtPing[s]
        /\ Len(calls[s]) = 2
        /\ calls[s][1].call = CallSMS
        /\ <<s, 1>> \in toolFailed[s]
        /\ Outputs(s, <<s, 1>>) = 0
        /\ Outputs(s, <<s, 2>>) = 1
        /\ \E i \in 1..Len(deltaIn[s]) : deltaIn[s][i].callsBefore = 2
        /\ wsOut[s] # <<>>

\* The keyword table in its order of priority: the keywords of each group
\* and the group's answer.
KeywordTable ==
    << [keywords |-> {KW_hour}, answer |-> FAQ_hours],
       [keywords |-> {KW_address, KW_location}, answer |-> FAQ_address],
       [keywords |-> {KW_insurance}, answer |-> FAQ_insurance],
       [keywords |-> {KW_parking}, answer |-> FAQ_parking],
       [keywords |-> {KW_new_patient}, answer |-> FAQ_new_patients] >>
\* The groups a keyword of which occurs in the lower-cased text.
GroupsIn(text) ==
    {g \in 1..Len(KeywordTable) :
        \E kw \in KeywordTable[g].keywords : includes(toLowerCase(text), kw)}
\* The answer of the first such group, the deflection if there is none.
FirstMatch(text) ==
    IF GroupsIn(text) = {} THEN Deflection
    ELSE KeywordTable[CHOOSE g \in GroupsIn(text) : \A h \in GroupsIn(text) : g <= h].answer
QuestionText(question) == IF question.type = "string" THEN question.text ELSE <<>>

\* C23: a lookup whose question is a text, empty or missing returns exactly
\* the answer of the first group, in the order hours, address/location,
\* insurance, parking, new-patient, a keyword of which occurs in the
\* lower-cased question, and the deflection if no group has one; the step
\* that finishes it changes neither the slot list nor the set of invocations
\* awaiting the notification collaborator and calls that collaborator not at all.
C23_LookupPriority ==
    [][(/\ Len(tLog') = Len(tLog) + 1
        /\ tLog'[Len(tLog')].call.name = "getFAQ"
        /\ tLog'[Len(tLog')].call.args.question.type # "number")
       => LET e == tLog'[Len(tLog')] IN
          /\ e.kind = "return"
          /\ e.result = Result("absent", "", FirstMatch(QuestionText(e.call.args.question)),
                               <<>>, NoSlot, "")
          /\ slots' = slots /\ slots = SLOTS
          /\ smsLog' = smsLog
          /\ tPending' = tPending
          /\ \A j \in 1..Len(smsLog') : smsLog'[j].n # e.n ]_vars

\* C23 witness: a question with the parking keyword before the insurance
\* keyword got the insurance answer, a question with a new-patient and a
\* parking keyword the parking answer, and a missing question the deflection.
C23_Witness ==
    /\ \E i \in Lookups(Q_parking_insurance) : Answered(i, FAQ_insurance)
    /\ \E i \in Lookups(Q_new_patient_parking) : Answered(i, FAQ_parking)
    /\ \E i \in 1..Len(tLog) :
          /\ tLog[i].call.name = "getFAQ"
          /\ tLog[i].call.args.question = NoQuestion
          /\ Answered(i, Deflection)

\* C24: a Model Leg is never left without a Call Leg: in no state is the Model
\* Leg of a session connecting or open while its Call Leg is closed, and once
\* the Call Leg has closed with no Model Leg created yet, none is created and
\* no Model Leg keepalive is set.
C24_NoModelLegWithoutCallLeg ==
    /\ [](\A s \in Sessions : ws[s] = "closed" => rt[s] \notin {"connecting", "open"})
    /\ [][\A s \in Sessions :
            (ws[s] = "closed" /\ rt[s] = "none") => (rt'[s] = "none" /\ ~rtPing'[s])]_vars

\* The instructions a Call Leg message is answered with on an open Model Leg.
InstructionsFor(m) ==
    IF m.parse = "ok" /\ m.event = "media" /\ m.hasMedia THEN <<AudioAppend(m.payload)>>
    ELSE IF m.parse = "ok" /\ m.event = "stop" THEN StopInstructions
    ELSE <<>>

\* C25: a Call Leg event delivered while the Model Leg is not open (during the
\* negotiation or while it is connecting) is dropped: its step sends nothing
\* on either leg, raises no fault and changes neither leg; it is not buffered
\* either: the step that opens the Model Leg sends the greeting and nothing
\* else, and an event delivered on an open Model Leg is answered with its own
\* instructions only.  Nothing is ever sent on a Model Leg that is not open.
C25_EarlyEventsDropped ==
    [][\A s \in Sessions :
         /\ \A m \in WsMsgs :
               WsMessage(s, m) =>
                   IF rt[s] = "open"
                   THEN rtOut'[s] = rtOut[s] \o InstructionsFor(m)
                   ELSE /\ rtOut'[s] = rtOut[s] /\ wsOut'[s] = wsOut[s]
                        /\ fault'[s] = fault[s] /\ crashed' = crashed
                        /\ ws'[s] = ws[s] /\ rt'[s] = rt[s]
                        /\ mediaIn'[s] = mediaIn[s] /\ stopIn'[s] = stopIn[s]
         /\ rtOut'[s] # rtOut[s] =>
               \/ rt[s] = "open"
               \/ /\ rt[s] = "connecting" /\ rt'[s] = "open"
                  /\ rtOut'[s] = Append(rtOut[s], Greeting) ]_vars

\* C25 witness: two media or stop events were delivered on the Call Leg
\* before the Model Leg opened; the Model Leg is open now and the greeting is
\* all that was sent on it.
C25_Witness ==
    \E s \in Sessions :
        /\ Active(s) /\ ~crashed /\ ~fault[s]
        /\ nIn >= 2
        /\ rtOut[s] = <<Greeting>> /\ wsOut[s] = <<>>
        /\ mediaIn[s] = <<>> /\ stopIn[s] = 0
        /\ calls[s] = <<>> /\ deltaIn[s] = <<>>

\* The names of the four tools declared to the model.
DeclaredTools == {"getFAQ", "getSlots", "bookSlot", "sendSMS"}
UnknownToolValue == Result("false", "Unknown tool", "", <<>>, NoSlot, "")
\* The function calls received on s's Model Leg whose name is no declared tool.
UnknownCalls(s) == {i \in 1..Len(calls[s]) : calls[s][i].call.name \notin DeclaredTools}

\* C26 (as claimed): every function-call event whose name is none of the four
\* declared tools has its "Unknown tool" failure value sent back on the Model
\* Leg as the function_call_output with its call_id.
C26_UnknownToolAnswered ==
    \A s \in Sessions : \A i \in UnknownCalls(s) :
        \E k \in 1..Len(rtOut[s]) :
            rtOut[s][k] = FunctionCallOutput(calls[s][i].call_id, UnknownToolValue)

\* C26 (amended): the handler of a function-call event whose name is none of
\* the four declared tools sends, if the Model Leg is open, exactly the
\* function_call_output with the event's call_id and the "Unknown tool"
\* failure value, and nothing if the Model Leg is no longer open; it leaves no
\* handler in flight and none failed, calls the notification collaborator not
\* at all and changes neither the slot list, the legs, the timers nor what
\* was sent on the Call Leg.
C26_UnknownToolAnsweredWhileOpen ==
    [][\A s \in Sessions :
         (/\ Len(calls'[s]) = Len(calls[s]) + 1
          /\ calls'[s][Len(calls'[s])].call.name \notin DeclaredTools)
         => /\ rtOut'[s] =
                  IF rt[s] = "open"
                  THEN Append(rtOut[s],
                              FunctionCallOutput(calls'[s][Len(calls'[s])].call_id,
                                                 UnknownToolValue))
                  ELSE rtOut[s]
            /\ pending'[s] = pending[s] /\ toolFailed'[s] = toolFailed[s]
            /\ slots' = slots /\ smsLog' = smsLog /\ tPending' = tPending
            /\ ws'[s] = ws[s] /\ rt'[s] = rt[s]
            /\ twilioPing'[s] = twilioPing[s] /\ rtPing'[s] = rtPing[s]
            /\ wsOut'[s] = wsOut[s] /\ fault'[s] = fault[s] /\ crashed' = crashed ]_vars

\* C26 witness: a call of a tool that is not declared, received in an ACTIVE
\* session after an earlier call, was answered once, with the failure value
\* under its own call_id.
C26_Witness ==
    \E s \in Sessions : \E i \in UnknownCalls(s) :
        /\ i > 1
        /\ calls[s][i].active
        /\ Outputs(s, calls[s][i].call_id) = 1
        /\ rtOut[s][Len(rtOut[s])] = FunctionCallOutput(<<s, i>>, UnknownToolValue)
        /\ calls[s][i].call_id \notin toolFailed[s] \cup PendingIds(s)

====
